---------------------------- MODULE Spec2Model ----------------------------
(***************************************************************************)
(* A model of examples/projects/tunnels/data-science/analysis/example.py:  *)
(*                                                                         *)
(*   _COMMITS_URL = 'https://api.github.com/repos/mutagen-io/mutagen/...'  *)
(*   def load_commit_times():                                              *)
(*       commits = requests.get(_COMMITS_URL).json()               (l.16)  *)
(*       times = [c['commit']['author']['date'] for c in commits]  (l.19)  *)
(*       return pd.Series(times).astype('datetime64')              (l.22)  *)
(*                                                                         *)
(* A string is a sequence of one-character strings.  A response body is a  *)
(* sequence of JSON tokens.  A Python value is a record [t, v]: t is the   *)
(* Python type name and v a sequence (the characters of a str, the digits  *)
(* of an int, the items of a list, the <<key, value>> pairs of a dict in   *)
(* insertion order).                                                       *)
(*                                                                         *)
(* Library semantics assumed (the libraries are not part of src/):         *)
(*  - requests.get blocks until a response arrives or the connection       *)
(*    fails (ConnectionError); Response.json() parses the body whatever    *)
(*    the status code and raises JSONDecodeError on a body that is not     *)
(*    one JSON document;                                                   *)
(*  - pandas 1.x, the pandas of the example's time: pd.Series([]) has      *)
(*    dtype float64, pd.Series of str has dtype object; astype of the      *)
(*    unit-less 'datetime64' parses an object Series with to_datetime      *)
(*    and raises ValueError ("The 'datetime64' dtype has no unit") for a   *)
(*    Series of any other dtype.                                           *)
(***************************************************************************)
EXTENDS Integers, Sequences, FiniteSets, TLC

\* The longest list of commits a response carries.
MaxLen == 3
\* The number of invocations of load_commit_times() in a concurrent run.
MaxCalls == 3

(***************************************************************************)
(* Strings                                                                 *)
(***************************************************************************)
COMMITS_URL == "https://api.github.com/repos/mutagen-io/mutagen/commits"

kCommit == <<"c","o","m","m","i","t">>
kAuthor == <<"a","u","t","h","o","r">>
kDate == <<"d","a","t","e">>
kSha == <<"s","h","a">>
kMessage == <<"m","e","s","s","a","g","e">>

\* Date strings a response may carry.
DateA == <<"2","0","2","3","-","0","1","-","1","5","T","1","0",":","3","0",":","0","0","Z">>
DateB == <<"2","0","2","3","-","0","3","-","0","1","T","0","0",":","0","0",":","5","9","Z">>
DateNoText == <<"n","o","t","-","a","-","d","a","t","e">>
DateNoDay == <<"2","0","2","3","-","0","2","-","3","0","T","1","0",":","3","0",":","0","0","Z">>

(***************************************************************************)
(* Python values                                                           *)
(***************************************************************************)
PyNone == [t |-> "NoneType", v |-> <<>>]
PyBool(b) == [t |-> "bool", v |-> <<b>>]
PyInt(digits) == [t |-> "int", v |-> digits]
PyStr(chars) == [t |-> "str", v |-> chars]
PyList(items) == [t |-> "list", v |-> items]
PyDict(pairs) == [t |-> "dict", v |-> pairs]

\* The local variable of a frame before its assignment.
Unset == [t |-> "unset", v |-> <<>>]

(***************************************************************************)
(* JSON: the tokens of a body, and json(): Response.json() of line 16      *)
(***************************************************************************)
Punct(c) == [k |-> "punct", v |-> <<c>>]
TStr(chars) == [k |-> "str", v |-> chars]
TNum(digits) == [k |-> "num", v |-> digits]
TLit(word) == [k |-> "lit", v |-> <<word>>]
TJunk(text) == [k |-> "junk", v |-> <<text>>]

ParseFail == [ok |-> FALSE, val |-> PyNone, next |-> 0]
ParseOk(val, next) == [ok |-> TRUE, val |-> val, next |-> next]

IsPunct(toks, i, c) == i <= Len(toks) /\ toks[i].k = "punct" /\ toks[i].v = <<c>>

\* d[key] = val on a dict under construction: a repeated key keeps its place
\* and takes the new value.
DictSet(pairs, key, val) ==
  IF \E i \in 1..Len(pairs) : pairs[i][1] = key
  THEN [i \in 1..Len(pairs) |-> IF pairs[i][1] = key THEN <<key, val>> ELSE pairs[i]]
  ELSE Append(pairs, <<key, val>>)

RECURSIVE ParseValue(_, _), ParseElems(_, _, _), ParseMembers(_, _, _)

\* One JSON value starting at token i.
ParseValue(toks, i) ==
  IF i > Len(toks) THEN ParseFail
  ELSE LET tk == toks[i] IN
    CASE tk.k = "str" -> ParseOk(PyStr(tk.v), i + 1)
      [] tk.k = "num" -> ParseOk(PyInt(tk.v), i + 1)
      [] tk.k = "lit" ->
           IF tk.v = <<"null">> THEN ParseOk(PyNone, i + 1)
           ELSE IF tk.v = <<"true">> THEN ParseOk(PyBool(TRUE), i + 1)
           ELSE IF tk.v = <<"false">> THEN ParseOk(PyBool(FALSE), i + 1)
           ELSE ParseFail
      [] IsPunct(toks, i, "[") ->
           IF IsPunct(toks, i + 1, "]") THEN ParseOk(PyList(<<>>), i + 2)
           ELSE ParseElems(toks, i + 1, <<>>)
      [] IsPunct(toks, i, "{") ->
           IF IsPunct(toks, i + 1, "}") THEN ParseOk(PyDict(<<>>), i + 2)
           ELSE ParseMembers(toks, i + 1, <<>>)
      [] OTHER -> ParseFail

\* The elements of an array after "[" or ",", acc the items read so far.
ParseElems(toks, i, acc) ==
  LET r == ParseValue(toks, i) IN
    IF ~r.ok THEN ParseFail
    ELSE IF IsPunct(toks, r.next, ",") THEN ParseElems(toks, r.next + 1, Append(acc, r.val))
    ELSE IF IsPunct(toks, r.next, "]") THEN ParseOk(PyList(Append(acc, r.val)), r.next + 1)
    ELSE ParseFail

\* The members of an object after "{" or ",", acc the pairs read so far.
ParseMembers(toks, i, acc) ==
  IF ~(i <= Len(toks) /\ toks[i].k = "str" /\ IsPunct(toks, i + 1, ":")) THEN ParseFail
  ELSE LET r == ParseValue(toks, i + 2) IN
    IF ~r.ok THEN ParseFail
    ELSE IF IsPunct(toks, r.next, ",")
      THEN ParseMembers(toks, r.next + 1, DictSet(acc, toks[i].v, r.val))
    ELSE IF IsPunct(toks, r.next, "}")
      THEN ParseOk(PyDict(DictSet(acc, toks[i].v, r.val)), r.next + 1)
    ELSE ParseFail

\* Mutant of json: a body that is no JSON document is taken for an empty list.
jsonLenient(response) ==
  LET r == ParseValue(response.body, 1) IN
    IF r.ok /\ r.next = Len(response.body) + 1
    THEN [err |-> "none", val |-> r.val]
    ELSE [err |-> "none", val |-> PyList(<<>>)]

\* Mutant of json: raise_for_status() before the body is parsed.
jsonChecked(response) ==
  LET r == ParseValue(response.body, 1) IN
    IF response.status # 200 THEN [err |-> "HTTPError", val |-> Unset]
    ELSE IF r.ok /\ r.next = Len(response.body) + 1
    THEN [err |-> "none", val |-> r.val]
    ELSE [err |-> "JSONDecodeError", val |-> Unset]

\* Response.json(): the whole body is one JSON document, or JSONDecodeError.
\* The status code of the response is not read.
json(response) ==
  LET r == ParseValue(response.body, 1) IN
    IF r.ok /\ r.next = Len(response.body) + 1
    THEN [err |-> "none", val |-> r.val]
    ELSE [err |-> "JSONDecodeError", val |-> Unset]

(***************************************************************************)
(* Timestamps: to_datetime of one string, used by line 22                  *)
(***************************************************************************)
Digits == <<"0","1","2","3","4","5","6","7","8","9">>
IsDigit(c) == \E d \in 1..10 : Digits[d] = c
DigitVal(c) == (CHOOSE d \in 1..10 : Digits[d] = c) - 1

\* The number written in s[from..to].
RECURSIVE Number(_, _, _)
Number(s, from, to) ==
  IF to < from THEN 0 ELSE 10 * Number(s, from, to - 1) + DigitVal(s[to])

IsLeap(y) == (y % 4 = 0 /\ y % 100 # 0) \/ y % 400 = 0
DaysInMonth(y, m) ==
  IF m = 2 THEN (IF IsLeap(y) THEN 29 ELSE 28)
  ELSE IF m \in {4, 6, 9, 11} THEN 30 ELSE 31

\* Days from 1970-01-01 to y-m-d in the proleptic Gregorian calendar.
DaysFromCivil(y, m, d) ==
  LET yy == IF m <= 2 THEN y - 1 ELSE y
      era == yy \div 400
      yoe == yy - era * 400
      mp == IF m > 2 THEN m - 3 ELSE m + 9
      doy == (153 * mp + 2) \div 5 + d - 1
      doe == yoe * 365 + yoe \div 4 - yoe \div 100 + doy
  IN era * 146097 + doe - 719468

\* A timestamp is the instant <<days since the epoch, second of the day>>.
NaT == [days |-> 0, secs |-> -1]

\* to_datetime of one string of the form YYYY-MM-DDTHH:MM:SSZ; a string of
\* another form in the input set (DateNoText) is no date for dateutil either.
\* datetime64[ns] holds 1677-09-21 .. 2262-04-11.
ParseTimestamp(s) ==
  LET shaped == /\ Len(s) = 20
                /\ \A i \in {1,2,3,4,6,7,9,10,12,13,15,16,18,19} : IsDigit(s[i])
                /\ s[5] = "-" /\ s[8] = "-" /\ s[11] = "T"
                /\ s[14] = ":" /\ s[17] = ":" /\ s[20] = "Z"
  IN IF ~shaped THEN [ok |-> FALSE, val |-> NaT]
     ELSE LET y == Number(s, 1, 4)
              mo == Number(s, 6, 7)
              d == Number(s, 9, 10)
              h == Number(s, 12, 13)
              mi == Number(s, 15, 16)
              sec == Number(s, 18, 19)
          IN IF /\ y \in 1678..2261 /\ mo \in 1..12 /\ d \in 1..DaysInMonth(y, mo)
                /\ h \in 0..23 /\ mi \in 0..59 /\ sec \in 0..59
             THEN [ok |-> TRUE,
                   val |-> [days |-> DaysFromCivil(y, mo, d),
                            secs |-> h * 3600 + mi * 60 + sec]]
             ELSE [ok |-> FALSE, val |-> NaT]

(***************************************************************************)
(* Line 19: times = [c['commit']['author']['date'] for c in commits]       *)
(***************************************************************************)
Raised(error) == [err |-> error, val |-> Unset]
Value(val) == [err |-> "none", val |-> val]

\* iter(commits): the items of a list, the keys of a dict, the characters of
\* a str; any other value is not iterable.
Iterate(obj) ==
  CASE obj.t = "list" -> Value(obj.v)
    [] obj.t = "dict" -> Value([i \in 1..Len(obj.v) |-> PyStr(obj.v[i][1])])
    [] obj.t = "str" -> Value([i \in 1..Len(obj.v) |-> PyStr(<<obj.v[i]>>)])
    [] OTHER -> Raised("TypeError")

\* obj[key] for a str key: the value of a dict, KeyError when the dict lacks
\* the key, TypeError on a value of any other type.
Subscript(obj, key) ==
  IF obj.t # "dict" THEN Raised("TypeError")
  ELSE LET at == {i \in 1..Len(obj.v) : obj.v[i][1] = key} IN
    IF at = {} THEN Raised("KeyError")
    ELSE Value(obj.v[CHOOSE i \in at : TRUE][2])

\* c['commit']['author']['date'], evaluated left to right.
DatePath(c) ==
  LET a == Subscript(c, kCommit) IN
    IF a.err # "none" THEN a
    ELSE LET b == Subscript(a.val, kAuthor) IN
      IF b.err # "none" THEN b
      ELSE Subscript(b.val, kDate)

\* Mutant of Project: each date is converted as soon as it is read, so the
\* first element that fails either way ends the loop.
ProjectConverting(commits) ==
  LET it == Iterate(commits) IN
    IF it.err # "none" THEN it
    ELSE LET Bad(c) == \/ DatePath(c).err # "none"
                       \/ ~ParseTimestamp(DatePath(c).val.v).ok
             bad == {i \in 1..Len(it.val) : Bad(it.val[i])}
             first == CHOOSE i \in bad : \A j \in bad : i <= j
         IN IF bad = {} THEN Value([i \in 1..Len(it.val) |-> DatePath(it.val[i]).val])
            ELSE IF DatePath(it.val[first]).err # "none" THEN DatePath(it.val[first])
            ELSE Raised("ParserError")

RECURSIVE WithDate(_)
\* The items whose date can be read, in order.
WithDate(items) ==
  IF items = <<>> THEN <<>>
  ELSE (IF DatePath(Head(items)).err = "none" THEN <<Head(items)>> ELSE <<>>)
       \o WithDate(Tail(items))

\* Mutant of Project: an element whose date cannot be read is skipped.
ProjectSkipping(commits) ==
  LET it == Iterate(commits) IN
    IF it.err # "none" THEN it
    ELSE LET kept == WithDate(it.val)
         IN Value([i \in 1..Len(kept) |-> DatePath(kept[i]).val])

\* The list comprehension: the elements in order, the first one that raises
\* ends it and the list built so far is dropped.
Project(commits) ==
  LET it == Iterate(commits) IN
    IF it.err # "none" THEN it
    ELSE LET bad == {i \in 1..Len(it.val) : DatePath(it.val[i]).err # "none"} IN
      IF bad # {}
      THEN DatePath(it.val[CHOOSE i \in bad : \A j \in bad : i <= j])
      ELSE Value([i \in 1..Len(it.val) |-> DatePath(it.val[i]).val])

(***************************************************************************)
(* Line 22: pd.Series(times).astype('datetime64')                          *)
(***************************************************************************)
\* Mutant of Convert: errors='coerce', a string that is no date becomes NaT.
ConvertCoerce(times) ==
  IF times = <<>> THEN Raised("ValueError")
  ELSE Value([i \in 1..Len(times) |-> ParseTimestamp(times[i].v).val])

\* pd.Series(times).astype('datetime64') for times a list of str (the date
\* values of the input set are strings).  An empty list makes a float64
\* Series, for which the unit-less dtype is refused; a list of str makes an
\* object Series, converted by to_datetime, which raises on the first string
\* that is no date.
Convert(times) ==
  IF times = <<>> THEN Raised("ValueError")
  ELSE IF \E i \in 1..Len(times) : ~ParseTimestamp(times[i].v).ok
    THEN Raised("ParserError")
  ELSE Value([i \in 1..Len(times) |-> ParseTimestamp(times[i].v).val])

(***************************************************************************)
(* load_commit_times() on one response, lines 16 to 22 in one piece        *)
(***************************************************************************)
NoOutcome == [kind |-> "none", error |-> "none", stage |-> "none", value |-> <<>>]
Returned(series) ==
  [kind |-> "returned", error |-> "none", stage |-> "none", value |-> series]
Failed(error, stage) ==
  [kind |-> "raised", error |-> error, stage |-> stage, value |-> <<>>]

load_commit_times(response) ==
  LET j == json(response) IN
    IF j.err # "none" THEN Failed(j.err, "decode")
    ELSE LET p == Project(j.val) IN
      IF p.err # "none" THEN Failed(p.err, "project")
      ELSE LET c == Convert(p.val) IN
        IF c.err # "none" THEN Failed(c.err, "convert")
        ELSE Returned(c.val)

(***************************************************************************)
(* What the server may answer                                              *)
(***************************************************************************)
RECURSIVE Encode(_), EncodeItems(_, _), EncodePairs(_, _)

\* The tokens of a JSON document.
Encode(val) ==
  CASE val.t = "NoneType" -> <<TLit("null")>>
    [] val.t = "bool" -> <<TLit(IF val.v[1] THEN "true" ELSE "false")>>
    [] val.t = "int" -> <<TNum(val.v)>>
    [] val.t = "str" -> <<TStr(val.v)>>
    [] val.t = "list" -> <<Punct("[")>> \o EncodeItems(val.v, 1) \o <<Punct("]")>>
    [] val.t = "dict" -> <<Punct("{")>> \o EncodePairs(val.v, 1) \o <<Punct("}")>>

EncodeItems(items, i) ==
  IF i > Len(items) THEN <<>>
  ELSE Encode(items[i])
       \o (IF i < Len(items) THEN <<Punct(",")>> ELSE <<>>)
       \o EncodeItems(items, i + 1)

EncodePairs(pairs, i) ==
  IF i > Len(pairs) THEN <<>>
  ELSE <<TStr(pairs[i][1]), Punct(":")>> \o Encode(pairs[i][2])
       \o (IF i < Len(pairs) THEN <<Punct(",")>> ELSE <<>>)
       \o EncodePairs(pairs, i + 1)

\* A commit object of the API, with the given commit.author.date.
Commit(date) ==
  PyDict(<< <<kSha, PyStr(<<"a">>)>>,
            <<kCommit, PyDict(<< <<kAuthor, PyDict(<< <<kDate, PyStr(date)>> >>)>>,
                                 <<kMessage, PyStr(<<"m">>)>> >>)>> >>)
\* Objects that lack the commit, the author or the date key.
NoCommit == PyDict(<< <<kSha, PyStr(<<"a">>)>> >>)
NoAuthor == PyDict(<< <<kCommit, PyDict(<< <<kMessage, PyStr(<<"m">>)>> >>)>> >>)
NoDate == PyDict(<< <<kCommit, PyDict(<< <<kAuthor, PyDict(<<>>)>> >>)>> >>)

WellFormed == {Commit(DateA), Commit(DateB)}
Elements == WellFormed \cup {Commit(DateNoText), NoCommit, NoAuthor, NoDate, PyInt(<<"7">>)}

\* Every list of at most n elements.
ListsUpTo(n) == {PyList(items) : items \in UNION {[1..k -> Elements] : k \in 0..n}}

\* Other JSON documents: lists with other elements, and documents that are
\* no list.
OtherDocs ==
  { PyList(<<Commit(DateNoDay)>>), PyList(<<Commit(DateA), Commit(DateNoDay)>>),
    PyList(<<PyNone>>), PyList(<<PyStr(kCommit)>>), PyList(<<PyList(<<>>)>>),
    PyList(<<Commit(DateA), PyBool(TRUE)>>),
    PyDict(<<>>), PyDict(<< <<kMessage, PyStr(<<"N","o","t"," ","F","o","u","n","d">>)>> >>),
    PyDict(<< <<kCommit, Commit(DateA)>> >>),
    PyStr(<<>>), PyStr(kCommit), PyInt(<<"7">>), PyNone, PyBool(FALSE) }

\* Bodies that are no JSON document: nothing, a page of HTML, a document cut
\* short, a trailing comma, two documents, a bare word, a key with no value.
NonJson ==
  { <<>>, <<TJunk("<html>")>>,
    <<Punct("["), Punct("{")>>,
    <<Punct("["), TNum(<<"7">>), Punct(","), Punct("]")>>,
    Encode(PyList(<<Commit(DateA)>>)) \o Encode(PyList(<<>>)),
    <<TLit("undefined")>>,
    <<Punct("{"), TStr(kCommit), Punct("}")>>,
    SubSeq(Encode(PyList(<<Commit(DateA)>>)), 1, 12) }

Bodies == {Encode(d) : d \in ListsUpTo(MaxLen) \cup OtherDocs} \cup NonJson
Statuses == {200, 403}
Responses == [status : Statuses, body : Bodies]

\* The answers of the runs with several callers.
FewBodies ==
  {Encode(d) : d \in {PyList(<<>>), PyList(<<Commit(DateA)>>),
                      PyList(<<Commit(DateB), Commit(DateA)>>),
                      PyList(<<Commit(DateNoText)>>), PyList(<<NoCommit>>),
                      PyDict(<<>>)}}
  \cup {<<TJunk("<html>")>>}
FewResponses == [status : Statuses, body : FewBodies]

(***************************************************************************)
(* The callers of load_commit_times() and the network                      *)
(***************************************************************************)
VARIABLES
  pc,        \* per caller: "idle", "waiting" (in requests.get), then the step to run
  response,  \* per caller: the response requests.get returned
  commits,   \* per caller: the local commits of line 16
  times,     \* per caller: the local times of line 19
  outcome,   \* per caller: what the invocation returned or raised
  trace,     \* per caller: the steps the invocation has run
  sent,      \* per caller: the requests the invocation has issued
  requests,  \* the requests the network has seen, in order
  calls      \* the invocations started

vars == <<pc, response, commits, times, outcome, trace, sent, requests, calls>>

NoResponse == [status |-> 0, body |-> <<>>]

InitFor(callers) ==
  /\ pc = [t \in callers |-> "idle"]
  /\ response = [t \in callers |-> NoResponse]
  /\ commits = [t \in callers |-> Unset]
  /\ times = [t \in callers |-> Unset]
  /\ outcome = [t \in callers |-> NoOutcome]
  /\ trace = [t \in callers |-> <<>>]
  /\ sent = [t \in callers |-> 0]
  /\ requests = <<>>
  /\ calls = 0

\* Line 16, requests.get(_COMMITS_URL): a call of load_commit_times() starts
\* by sending one GET to the URL, with a fresh frame.
Get(t) ==
  /\ pc[t] = "idle"
  /\ calls < MaxCalls
  /\ calls' = calls + 1
  /\ requests' = Append(requests, [method |-> "GET", url |-> COMMITS_URL])
  /\ sent' = [sent EXCEPT ![t] = 1]
  /\ trace' = [trace EXCEPT ![t] = <<"request">>]
  /\ pc' = [pc EXCEPT ![t] = "waiting"]
  /\ UNCHANGED <<response, commits, times, outcome>>

\* requests.get returns the server's response, whatever its status.
Respond(t, r) ==
  /\ pc[t] = "waiting"
  /\ response' = [response EXCEPT ![t] = r]
  /\ pc' = [pc EXCEPT ![t] = "decode"]
  /\ UNCHANGED <<commits, times, outcome, trace, sent, requests, calls>>

\* Mutant of ConnectionFails: the request is sent again.
ConnectionRetries(t) ==
  /\ pc[t] = "waiting"
  /\ requests' = Append(requests, [method |-> "GET", url |-> COMMITS_URL])
  /\ sent' = [sent EXCEPT ![t] = @ + 1]
  /\ UNCHANGED <<pc, response, commits, times, outcome, trace, calls>>

\* requests.get raises: no connection.  Nothing catches it.
ConnectionFails(t) ==
  /\ pc[t] = "waiting"
  /\ outcome' = [outcome EXCEPT ![t] = Failed("ConnectionError", "request")]
  /\ pc' = [pc EXCEPT ![t] = "done"]
  /\ UNCHANGED <<response, commits, times, trace, sent, requests, calls>>

\* Line 16, .json(): commits = the decoded body.
Decode(t) ==
  /\ pc[t] = "decode"
  /\ trace' = [trace EXCEPT ![t] = Append(@, "decode")]
  /\ LET j == json(response[t]) IN
       IF j.err # "none"
       THEN /\ outcome' = [outcome EXCEPT ![t] = Failed(j.err, "decode")]
            /\ pc' = [pc EXCEPT ![t] = "done"]
            /\ UNCHANGED commits
       ELSE /\ commits' = [commits EXCEPT ![t] = j.val]
            /\ pc' = [pc EXCEPT ![t] = "project"]
            /\ UNCHANGED outcome
  /\ UNCHANGED <<response, times, sent, requests, calls>>

\* Line 19 on the list `source`.
ExtractFrom(t, source) ==
  /\ pc[t] = "project"
  /\ trace' = [trace EXCEPT ![t] = Append(@, "project")]
  /\ LET p == Project(source) IN
       IF p.err # "none"
       THEN /\ outcome' = [outcome EXCEPT ![t] = Failed(p.err, "project")]
            /\ pc' = [pc EXCEPT ![t] = "done"]
            /\ UNCHANGED times
       ELSE /\ times' = [times EXCEPT ![t] = p.val]
            /\ pc' = [pc EXCEPT ![t] = "convert"]
            /\ UNCHANGED outcome
  /\ UNCHANGED <<response, commits, sent, requests, calls>>

\* Mutant of Extract: commits is a variable of the module, shared by the
\* callers, and holds what any of them assigned.
ExtractShared(t) ==
  \E u \in DOMAIN pc : commits[u] # Unset /\ ExtractFrom(t, commits[u])

\* Line 19: times = the date of every element of the caller's own commits.
Extract(t) == ExtractFrom(t, commits[t])

\* Line 22: return the Series of timestamps.
Return(t) ==
  /\ pc[t] = "convert"
  /\ trace' = [trace EXCEPT ![t] = Append(@, "convert")]
  /\ LET c == Convert(times[t]) IN
       outcome' = [outcome EXCEPT ![t] =
                     IF c.err # "none" THEN Failed(c.err, "convert") ELSE Returned(c.val)]
  /\ pc' = [pc EXCEPT ![t] = "done"]
  /\ UNCHANGED <<response, commits, times, sent, requests, calls>>

\* The caller has the result or the exception; the frame is gone.
Finish(t) ==
  /\ pc[t] = "done"
  /\ pc' = [pc EXCEPT ![t] = "idle"]
  /\ response' = [response EXCEPT ![t] = NoResponse]
  /\ commits' = [commits EXCEPT ![t] = Unset]
  /\ times' = [times EXCEPT ![t] = Unset]
  /\ outcome' = [outcome EXCEPT ![t] = NoOutcome]
  /\ trace' = [trace EXCEPT ![t] = <<>>]
  /\ sent' = [sent EXCEPT ![t] = 0]
  /\ UNCHANGED <<requests, calls>>

\* One invocation, every response.
Main == {"main"}
Init == InitFor(Main)
Next ==
  \E t \in Main :
    \/ Get(t)
    \/ \E r \in Responses : Respond(t, r)
    \/ ConnectionFails(t)
    \/ Decode(t)
    \/ Extract(t)
    \/ Return(t)
Spec == Init /\ [][Next]_vars

\* Two callers at once, MaxCalls invocations in all.
Callers == {"t1", "t2"}
InitConc == InitFor(Callers)
NextConc ==
  \E t \in Callers :
    \/ Get(t)
    \/ \E r \in FewResponses : Respond(t, r)
    \/ ConnectionFails(t)
    \/ Decode(t)
    \/ Extract(t)
    \/ Return(t)
    \/ Finish(t)
SpecConc == InitConc /\ [][NextConc]_vars

(***************************************************************************)
(* The claims.  A claim's case is stated on the body the server sent (built *)
(* with Encode), and its expected timestamps are written out, so that the  *)
(* decoder and the converter are checked and not assumed.                  *)
(***************************************************************************)
Done(t) == pc[t] = "done"
Answered(t) == response[t] # NoResponse

SeqsUpTo(S, n) == UNION {[1..k -> S] : k \in 0..n}
ListBody(items) == Encode(PyList(items))
CommitsOf(dates) == [i \in 1..Len(dates) |-> Commit(dates[i])]

\* The instants the two valid date strings denote.
InstantOf(date) ==
  CASE date = DateA -> [days |-> 19372, secs |-> 37800]
    [] date = DateB -> [days |-> 19417, secs |-> 59]
InstantsOf(dates) == [i \in 1..Len(dates) |-> InstantOf(dates[i])]

ValidDates == SeqsUpTo({DateA, DateB}, MaxLen)
MissingKey == {NoCommit, NoAuthor, NoDate}
AnyCommit == {Commit(DateA), Commit(DateB), Commit(DateNoText)}

\* C1 as claimed: a response that is a list of N >= 0 well-formed commit
\* objects makes load_commit_times() return exactly the N timestamps of its
\* date strings, position by position, nothing filtered, merged or reordered.
C1_ReturnsEveryTimestampInOrder ==
  \A t \in DOMAIN pc : \A dates \in ValidDates :
    (Done(t) /\ Answered(t) /\ response[t].body = ListBody(CommitsOf(dates)))
      => outcome[t] = Returned(InstantsOf(dates))

\* C1 for N >= 1, which is what the code does: see C2 for N = 0.
C1_NonEmptyReturnsEveryTimestampInOrder ==
  \A t \in DOMAIN pc : \A dates \in ValidDates \ {<<>>} :
    (Done(t) /\ Answered(t) /\ response[t].body = ListBody(CommitsOf(dates)))
      => outcome[t] = Returned(InstantsOf(dates))

\* C2 as claimed: the empty JSON array makes load_commit_times() return an
\* empty sequence, without failure.
C2_EmptyArrayReturnsEmpty ==
  \A t \in DOMAIN pc :
    (Done(t) /\ Answered(t) /\ response[t].body = ListBody(<<>>))
      => outcome[t] = Returned(<<>>)

\* Lists with an element that lacks a key, and those of them whose other
\* elements are all commit objects.
MissingKeyBodies ==
  {ListBody(items) : items \in {x \in SeqsUpTo(Elements, MaxLen) :
                                  \E i \in 1..Len(x) : x[i] \in MissingKey}}
MissingKeyOnlyBodies ==
  {ListBody(items) : items \in {x \in SeqsUpTo(AnyCommit \cup MissingKey, MaxLen) :
                                  \E i \in 1..Len(x) : x[i] \in MissingKey}}

\* C3: when an element of the list lacks the commit, author or date key, at
\* any position and whatever the other elements, the invocation never returns
\* a sequence: it raises while extracting the dates (KeyError when the other
\* elements are commit objects) and no partial result is left.
C3_MissingKeyFails ==
  \A t \in DOMAIN pc :
    (Answered(t) /\ response[t].body \in MissingKeyBodies) =>
      /\ outcome[t].kind # "returned"
      /\ Done(t) => /\ outcome[t].kind = "raised"
                    /\ outcome[t].stage = "project"
                    /\ outcome[t].error \in {"KeyError", "TypeError"}
                    /\ outcome[t].value = <<>>
                    /\ times[t] = Unset
      /\ (Done(t) /\ response[t].body \in MissingKeyOnlyBodies)
           => outcome[t].error = "KeyError"

C3_Witness ==
  /\ Done("main")
  /\ response["main"].body = ListBody(<<Commit(DateA), NoAuthor, Commit(DateB)>>)
  /\ outcome["main"] = Failed("KeyError", "project")

\* C4: a body that is not JSON makes the invocation fail with the decode
\* error at the JSON step: no field is extracted, no timestamp converted and
\* nothing returned.
C4_NonJsonFailsAtDecode ==
  \A t \in DOMAIN pc :
    (Answered(t) /\ response[t].body \in NonJson) =>
      /\ pc[t] \in {"decode", "done"}
      /\ commits[t] = Unset /\ times[t] = Unset
      /\ Done(t) => /\ outcome[t] = Failed("JSONDecodeError", "decode")
                    /\ trace[t] = <<"request", "decode">>

C4_Witness ==
  /\ Done("main")
  /\ response["main"].body = <<TJunk("<html>")>>
  /\ outcome["main"] = Failed("JSONDecodeError", "decode")

\* Lists of commit objects one of whose date strings is no timestamp.
BadDateBodies ==
  {ListBody(items) : items \in {x \in SeqsUpTo(AnyCommit, MaxLen) :
                                  \E i \in 1..Len(x) : x[i] = Commit(DateNoText)}}
  \cup {ListBody(<<Commit(DateNoDay)>>), ListBody(<<Commit(DateA), Commit(DateNoDay)>>)}

\* C5: when the date string of an element is not a timestamp, the invocation
\* fails with the timestamp-parse error and returns nothing, even if every
\* other date is valid.
C5_BadDateFails ==
  \A t \in DOMAIN pc :
    (Answered(t) /\ response[t].body \in BadDateBodies) =>
      /\ outcome[t].kind # "returned"
      /\ Done(t) => outcome[t] = Failed("ParserError", "convert")

C5_Witness ==
  /\ Done("main")
  /\ response["main"].body = ListBody(<<Commit(DateA), Commit(DateNoText), Commit(DateB)>>)
  /\ outcome["main"] = Failed("ParserError", "convert")

\* C6: every invocation issues exactly one GET to the constant URL, whether
\* it succeeds or fails in any way: k invocations make k requests, none is
\* retried and none is answered from a cache.
C6_OneRequestPerInvocation ==
  /\ Len(requests) = calls
  /\ \A i \in 1..Len(requests) : requests[i] = [method |-> "GET", url |-> COMMITS_URL]
  /\ \A t \in DOMAIN pc : sent[t] = IF pc[t] = "idle" THEN 0 ELSE 1

\* Two invocations, two requests, two different results.
C6_Witness ==
  /\ Done("t1") /\ Done("t2")
  /\ Len(requests) = 2
  /\ outcome["t1"] = Returned(<<InstantOf(DateA)>>)
  /\ outcome["t2"] = Returned(<<InstantOf(DateB), InstantOf(DateA)>>)

\* Documents that are no list of objects.
NotListOfObjects ==
  {Encode(d) : d \in {x \in OtherDocs : x.t # "list"}}
  \cup {ListBody(<<PyNone>>), ListBody(<<PyStr(kCommit)>>), ListBody(<<PyList(<<>>)>>),
        ListBody(<<Commit(DateA), PyBool(TRUE)>>)}
  \cup {ListBody(items) : items \in {x \in SeqsUpTo(Elements, MaxLen) :
                                       \E i \in 1..Len(x) : x[i].t # "dict"}}

\* C7: a body that is valid JSON but no list of objects (an object, also the
\* empty one, a string, also the empty one, a number, null, a list with an
\* element that is no object) always makes the invocation fail: no sequence
\* is returned.
C7_ShapeMismatchFails ==
  \A t \in DOMAIN pc :
    (Answered(t) /\ response[t].body \in NotListOfObjects) =>
      /\ outcome[t].kind # "returned"
      /\ Done(t) => /\ outcome[t].kind = "raised"
                    /\ outcome[t].stage \in {"project", "convert"}
                    /\ outcome[t].value = <<>>

C7_Witness ==
  /\ Done("main")
  /\ response["main"].body = Encode(PyDict(<<>>))
  /\ outcome["main"].kind = "raised"

\* C8: an invocation's outcome is a function of the response to its own
\* request only, however it is interleaved with other invocations and
\* whatever came before: its locals hold what its own response gives.
C8_OutcomeOfOwnResponseOnly ==
  \A t \in DOMAIN pc :
    /\ (Done(t) /\ Answered(t)) => outcome[t] = load_commit_times(response[t])
    /\ (Done(t) /\ ~Answered(t)) => outcome[t] = Failed("ConnectionError", "request")
    /\ ~Done(t) => outcome[t] = NoOutcome
    /\ pc[t] \in {"project", "convert"} => commits[t] = json(response[t]).val
    /\ pc[t] = "convert" => times[t] = Project(commits[t]).val

\* Two invocations in flight at once, with different responses and outcomes.
C8_Witness ==
  /\ Done("t1") /\ Done("t2") /\ calls = MaxCalls
  /\ outcome["t1"] = Failed("JSONDecodeError", "decode")
  /\ outcome["t2"] = Returned(<<InstantOf(DateA)>>)

BadDateAndMissingKeyBodies ==
  {ListBody(items) : items \in {x \in SeqsUpTo(AnyCommit \cup MissingKey, MaxLen) :
                                  /\ \E i \in 1..Len(x) : x[i] = Commit(DateNoText)
                                  /\ \E i \in 1..Len(x) : x[i] \in MissingKey}}

IsPrefix(s, full) == Len(s) <= Len(full) /\ s = SubSeq(full, 1, Len(s))

\* C10: the steps run in the order request, decode, projection of the whole
\* list, conversion of the whole list, and the first step that fails decides
\* the error: a list with both an unparseable date and an element lacking a
\* key fails with the missing-key error, before any date is converted.
C10_StagesInOrder ==
  \A t \in DOMAIN pc :
    /\ IsPrefix(trace[t], <<"request", "decode", "project", "convert">>)
    /\ (Done(t) /\ outcome[t].kind = "raised" /\ Answered(t))
         => outcome[t].stage = trace[t][Len(trace[t])]
    /\ (Done(t) /\ Answered(t) /\ response[t].body \in BadDateAndMissingKeyBodies)
         => /\ outcome[t] = Failed("KeyError", "project")
            /\ trace[t] = <<"request", "decode", "project">>

C10_Witness ==
  /\ Done("main")
  /\ response["main"].body = ListBody(<<Commit(DateNoText), Commit(DateA), NoDate>>)
  /\ outcome["main"] = Failed("KeyError", "project")

=============================================================================
